---- MODULE Spec2Model ----
(***************************************************************************)
(* Model of meshconvert.py (KrisYu/Stellar): the tetrahedral mesh          *)
(* converter.  main reads a mesh with readNodeEle or readTet (both run the *)
(* orientation-repair pass), optionally scales the points, and writes the  *)
(* mesh with writeNodeEle or writeTet.  GetFaceTopo recovers the face      *)
(* topology of a tetrahedron list.                                         *)
(*                                                                         *)
(* Python floats are modelled as integers rounded to MantBits significant  *)
(* bits (round half to even), so that the rounding of every subtraction,   *)
(* product and sum of orient3d is part of the model.  Python lists are     *)
(* sequences; a Python index i is the sequence index i + 1.  Where the     *)
(* code compares a tuple with a list, values carry their Python type.      *)
(***************************************************************************)
EXTENDS Integers, Sequences, FiniteSets, TLC

VARIABLES
    pc,          \* position in main / in the library call
    inFile,      \* the input file: type, first point index, points, tets
    points,      \* main's `points`
    tets,        \* main's `tets`
    boundFaces,  \* main's `boundFaces`
    stdout,      \* the lines printed so far
    topo,        \* the locals of GetFaceTopo when it returned or raised
    outFile      \* the output file as written

vars == <<pc, inFile, points, tets, boundFaces, stdout, topo, outFile>>

-----------------------------------------------------------------------------
(* Bounds of the model *)

\* significant bits of a float (53 in CPython; scaled down with the coordinates)
MantBits == 3
\* number of points in an input file
NumPoints == 4
\* largest number of tetrahedra in an input file
MaxTets == 2
\* number of vertex ids used by the tetrahedron lists given to GetFaceTopo
TopoVerts == 5
\* largest number of tetrahedra in a list given to GetFaceTopo
MaxTopoTets == 3

\* the points an input file draws from: the unit tetrahedron and two more
PointPool ==
    { <<0,0,0>>, <<1,0,0>>, <<0,1,0>>, <<0,0,1>>, <<0,1,1>>, <<2,2,3>> }

\* the values of the -s option that are tried
ScaleSet == { -1, 2 }

-----------------------------------------------------------------------------
(* Floating-point arithmetic *)

Abs(n) == IF n < 0 THEN -n ELSE n

RECURSIVE Pow2(_)
Pow2(k) == IF k = 0 THEN 1 ELSE 2 * Pow2(k - 1)

\* magnitudes below 2^MantBits are floats themselves
MantLimit == Pow2(MantBits)

\* the spacing of the floats around magnitude m
RECURSIVE UlpFrom(_, _)
UlpFrom(m, u) == IF m < MantLimit * u THEN u ELSE UlpFrom(m, 2 * u)

\* the float nearest to the real number n, ties to the even mantissa
Round(n) ==
    IF -MantLimit < n /\ n < MantLimit THEN n
    ELSE LET m == Abs(n)
             u == UlpFrom(m, 2)
             q == m \div u
             r == m % u
             q2 == IF 2 * r > u \/ (2 * r = u /\ q % 2 = 1) THEN q + 1 ELSE q
         IN  IF n < 0 THEN -(q2 * u) ELSE q2 * u

FAdd(x, y) == Round(x + y)
FSub(x, y) == Round(x - y)
FMul(x, y) == Round(x * y)

\* float(text) of a coordinate field
ParseFloat(x) == Round(x)

-----------------------------------------------------------------------------
(* Vector helpers *)

vscale(scale, v) == [i \in 1..Len(v) |-> FMul(v[i], scale)]

vaddscalar(scalar, v) == [i \in 1..Len(v) |-> v[i] + scalar]

vsubscalar(scalar, v) == [i \in 1..Len(v) |-> v[i] - scalar]

\* list[i] of Python: a negative index counts from the end
PyIndex(list, i) == IF i >= 0 THEN list[i + 1] ELSE list[Len(list) + i + 1]

-----------------------------------------------------------------------------
(* GeometryKernel *)

\* orient3d with the rows a - d and b - d exchanged
orient3dSwappedRows(a, b, c, d) ==
    LET m11 == FSub(b[1], d[1])
        m12 == FSub(b[2], d[2])
        m13 == FSub(b[3], d[3])
        m21 == FSub(a[1], d[1])
        m22 == FSub(a[2], d[2])
        m23 == FSub(a[3], d[3])
        m31 == FSub(c[1], d[1])
        m32 == FSub(c[2], d[2])
        m33 == FSub(c[3], d[3])
    IN  FSub(FSub(FSub(FAdd(FAdd(FMul(FMul(m11, m22), m33),
                                 FMul(FMul(m12, m23), m31)),
                            FMul(FMul(m13, m21), m32)),
                       FMul(FMul(m11, m23), m32)),
                  FMul(FMul(m12, m21), m33)),
             FMul(FMul(m13, m22), m31))

orient3d(a, b, c, d) ==
    LET m11 == FSub(a[1], d[1])
        m12 == FSub(a[2], d[2])
        m13 == FSub(a[3], d[3])
        m21 == FSub(b[1], d[1])
        m22 == FSub(b[2], d[2])
        m23 == FSub(b[3], d[3])
        m31 == FSub(c[1], d[1])
        m32 == FSub(c[2], d[2])
        m33 == FSub(c[3], d[3])
    IN  FSub(FSub(FSub(FAdd(FAdd(FMul(FMul(m11, m22), m33),
                                 FMul(FMul(m12, m23), m31)),
                            FMul(FMul(m13, m21), m32)),
                       FMul(FMul(m11, m23), m32)),
                  FMul(FMul(m12, m21), m33)),
             FMul(FMul(m13, m22), m31))

-----------------------------------------------------------------------------
(* OrientationRepair: the loops of readNodeEle and readTet.  `off` is the   *)
(* offset the loop subtracts from a vertex id: 0 in readNodeEle, 1 in       *)
(* readTet.                                                                 *)

TetOrient(pts, tet, off) ==
    orient3d(PyIndex(pts, tet[1] - off), PyIndex(pts, tet[2] - off),
             PyIndex(pts, tet[3] - off), PyIndex(pts, tet[4] - off))

SwapFirstTwo(tet) == <<tet[2], tet[1], tet[3], tet[4]>>

\* variants of the loop body: exchanging positions 0 and 2, never
\* exchanging, and exchanging on <= 0
RepairTetSwap02(pts, tet, off) ==
    IF TetOrient(pts, tet, off) < 0
    THEN <<tet[3], tet[2], tet[1], tet[4]>>
    ELSE tet

RepairTetNever(pts, tet, off) == tet

RepairTetSwapNonPositive(pts, tet, off) ==
    IF TetOrient(pts, tet, off) <= 0 THEN SwapFirstTwo(tet) ELSE tet

\* one iteration of the loop, on the tetrahedron itself
RepairTet(pts, tet, off) ==
    IF TetOrient(pts, tet, off) < 0 THEN SwapFirstTwo(tet) ELSE tet

RepairPass(pts, ts, off) == [k \in 1..Len(ts) |-> RepairTet(pts, ts[k], off)]

Line(msg, num) == [msg |-> msg, num |-> num]

\* the lines one iteration of readNodeEle's loop prints for tetrahedron tetNum
NodeLinesOf(pts, tet, tetNum) ==
    (IF TetOrient(pts, tet, 0) = 0
     THEN << Line("WHOA! input zero-volume tet", tetNum), Line("a=", tetNum),
             Line("b=", tetNum), Line("c=", tetNum), Line("d=", tetNum) >>
     ELSE << >>)
    \o
    (IF TetOrient(pts, tet, 0) < 0
     THEN << Line("correcting inverted tet", tetNum) >>
     ELSE << >>)

\* the number field of a printed line that carries no number
NoNum == -1

TetLinesOf(pts, tet) ==
    IF TetOrient(pts, tet, 1) = 0
    THEN << Line("WHOA! input zero-volume tet", NoNum) >>
    ELSE << >>

RECURSIVE NodeLines(_, _, _)
NodeLines(pts, ts, k) ==
    IF k > Len(ts) THEN << >>
    ELSE NodeLinesOf(pts, ts[k], k - 1) \o NodeLines(pts, ts, k + 1)

RECURSIVE TetLines(_, _, _)
TetLines(pts, ts, k) ==
    IF k > Len(ts) THEN << >>
    ELSE TetLinesOf(pts, ts[k]) \o TetLines(pts, ts, k + 1)

-----------------------------------------------------------------------------
(* FaceTopology: GetFaceTopo and unique *)

PyList(s) == [kind |-> "list", items |-> s]

PyTuple(s) == [kind |-> "tuple", items |-> s]

\* x == y of Python: a tuple never equals a list
PyEq(x, y) == x.kind = y.kind /\ x.items = y.items

\* sorted(face): a new list
sorted(face) == PyList(SortSeq(face, LAMBDA x, y : x < y))

\* the four faces of a tetrahedron, in the order GetFaceTopo appends them
TetFaces(tet) ==
    << <<tet[1], tet[2], tet[3]>>, <<tet[1], tet[3], tet[4]>>,
       <<tet[1], tet[4], tet[2]>>, <<tet[2], tet[4], tet[3]>> >>

RECURSIVE AllFaces(_, _)
AllFaces(ts, k) ==
    IF k > Len(ts) THEN << >> ELSE TetFaces(ts[k]) \o AllFaces(ts, k + 1)

SortedFaces(ts) ==
    LET faces == AllFaces(ts, 1)
    IN  [i \in 1..Len(faces) |-> sorted(faces[i])]

\* the keys of the dict comprehension, in insertion order
RECURSIVE UniqueFrom(_, _, _)
UniqueFrom(s, k, acc) ==
    IF k > Len(s) THEN acc
    ELSE LET key == PyTuple(s[k].items)
         IN  UniqueFrom(s, k + 1,
                        IF \E i \in 1..Len(acc) : acc[i] = key
                        THEN acc ELSE Append(acc, key))

\* the sort-based way of removing duplicates: sorted order, not first-seen
uniqueBySorting(s) ==
    LET keys == UniqueFrom(s, 1, << >>)
        less(x, y) ==
            \/ x.items[1] < y.items[1]
            \/ x.items[1] = y.items[1] /\ x.items[2] < y.items[2]
            \/ x.items[1] = y.items[1] /\ x.items[2] = y.items[2]
                  /\ x.items[3] < y.items[3]
    IN  SortSeq(keys, less)

unique(s) == IF s = << >> THEN << >> ELSE UniqueFrom(s, 1, << >>)

\* uFaceDict[key]
UFaceDictGet(uniqueFaces, key) ==
    CHOOSE n \in 0..(Len(uniqueFaces) - 1) : uniqueFaces[n + 1] = key

Tet2Face(ts, sortedFaces, uniqueFaces) ==
    [t \in 1..Len(ts) |->
        [k \in 1..4 |->
            UFaceDictGet(uniqueFaces,
                         PyTuple(sortedFaces[(t - 1) * 4 + k].items))]]

\* the face -> tet loop from its v-th visit on; st holds face2tet, the
\* printed lines and whether the assertion of the loop has failed
RECURSIVE OwnerLoop(_, _, _)
OwnerLoop(tet2face, v, st) ==
    IF v > 4 * Len(tet2face) \/ st.status # "running" THEN st
    ELSE LET tetNum == (v - 1) \div 4
             face == tet2face[tetNum + 1][((v - 1) % 4) + 1]
         IN  IF st.face2tet[face + 1][1] = -1
             THEN OwnerLoop(tet2face, v + 1,
                            [st EXCEPT !.face2tet[face + 1][1] = tetNum])
             ELSE IF st.face2tet[face + 1][2] # -1
                  THEN [st EXCEPT
                          !.out = @ \o
                            << Line("whoa, found more than two tets for a face?", NoNum),
                               Line("tetnum is", tetNum) >>,
                          !.status = "AssertionError",
                          !.line = 243]
                  ELSE OwnerLoop(tet2face, v + 1,
                                 [st EXCEPT !.face2tet[face + 1][2] = tetNum])

\* the faces of the owning tetrahedron that compare equal to the unique face
FoundFaces(ts, uniqueFaces, face2tet, faceNum) ==
    SelectSeq(TetFaces(PyIndex(ts, face2tet[faceNum + 1][1])),
              LAMBDA face : PyEq(uniqueFaces[faceNum + 1], sorted(face)))

\* the boundary-face loop from face faceNum on
RECURSIVE BoundaryLoop(_, _, _, _, _)
BoundaryLoop(ts, uniqueFaces, face2tet, faceNum, st) ==
    IF faceNum >= Len(face2tet) \/ st.status # "running" THEN st
    ELSE IF face2tet[faceNum + 1][2] # -1
         THEN BoundaryLoop(ts, uniqueFaces, face2tet, faceNum + 1, st)
         ELSE LET found == FoundFaces(ts, uniqueFaces, face2tet, faceNum)
              IN  IF found = << >>
                  THEN [st EXCEPT !.status = "AssertionError", !.line = 264]
                  ELSE BoundaryLoop(ts, uniqueFaces, face2tet, faceNum + 1,
                                    [st EXCEPT !.boundaryFaces = @ \o found])

\* GetFaceTopo(tets): its locals when it returns or raises AssertionError
GetFaceTopo(ts) ==
    LET sortedFaces == SortedFaces(ts)
        uniqueFaces == unique(sortedFaces)
        tet2face == Tet2Face(ts, sortedFaces, uniqueFaces)
        owners == OwnerLoop(tet2face, 1,
                            [face2tet |-> [f \in 1..Len(uniqueFaces) |-> <<-1, -1>>],
                             out |-> << >>, status |-> "running", line |-> 0])
        bound == IF owners.status = "running"
                 THEN BoundaryLoop(ts, uniqueFaces, owners.face2tet, 0,
                                   [boundaryFaces |-> << >>, status |-> "running",
                                    line |-> 0])
                 ELSE [boundaryFaces |-> << >>, status |-> owners.status,
                       line |-> owners.line]
    IN  [status |-> IF bound.status = "running" THEN "returned" ELSE bound.status,
         line |-> bound.line,
         uniqueFaces |-> uniqueFaces,
         tet2face |-> tet2face,
         face2tet |-> owners.face2tet,
         boundaryFaces |-> bound.boundaryFaces,
         out |-> owners.out]

NoTopo ==
    [status |-> "not called", line |-> 0, uniqueFaces |-> << >>,
     tet2face |-> << >>, face2tet |-> << >>, boundaryFaces |-> << >>,
     out |-> << >>]

-----------------------------------------------------------------------------
(* Format adapters *)

NoFile == [type |-> "none", firstIndex |-> 0, points |-> << >>, tets |-> << >>]

\* boundFaces = None
None == "None"

\* ReadNode: the points, and whether the first point's number is not '1'
ReadNode(file) ==
    [points |-> [i \in 1..Len(file.points) |->
                    [j \in 1..3 |-> ParseFloat(file.points[i][j])]],
     startFromZero |-> file.firstIndex # 1]

\* ReadEle: the vertex ids of every line, decremented if numbering starts at 1
ReadEle(file, startFromZero) ==
    IF startFromZero THEN file.tets
    ELSE [k \in 1..Len(file.tets) |-> vsubscalar(1, file.tets[k])]

\* the part of readTet before the repair loop
ReadTetPoints(file) ==
    [i \in 1..Len(file.points) |-> [j \in 1..3 |-> ParseFloat(file.points[i][j])]]

ReadTetTets(file) == file.tets

-----------------------------------------------------------------------------
(* The inputs *)

\* the tetrahedra of an input file, as positions in its point list
TetPool == { <<k, k + 1, k + 2, k + 3>> : k \in 0..(NumPoints - 4) }

TetLists == UNION { [1..n -> TetPool] : n \in 1..MaxTets }

PointLists ==
    { p \in [1..NumPoints -> PointPool] :
        \A i, j \in 1..NumPoints : i # j => p[i] # p[j] }

\* .node/.ele files number their points from 0 or from 1; .tet files from 1
Formats ==
    { [type |-> ".node", firstIndex |-> 0],
      [type |-> ".node", firstIndex |-> 1],
      [type |-> ".tet", firstIndex |-> 1] }

InputFiles ==
    { [type |-> f.type, firstIndex |-> f.firstIndex, points |-> p,
       tets |-> [k \in 1..Len(t) |-> vaddscalar(f.firstIndex, t[k])]] :
        f \in Formats, p \in PointLists, t \in TetLists }

\* the tetrahedron lists given to GetFaceTopo directly: tetrahedra around the
\* edge {0, 1}, in ascending order or with the first two ids exchanged
TopoTetPool ==
    LET asc == { <<0, 1, i, j>> : i \in 2..(TopoVerts - 2), j \in 3..(TopoVerts - 1) }
        ordered == { t \in asc : t[3] < t[4] }
    IN  ordered \cup { SwapFirstTwo(t) : t \in ordered }

TopoTetLists == UNION { [1..n -> TopoTetPool] : n \in 1..MaxTopoTets }

-----------------------------------------------------------------------------
(* main: read, scale, write *)

Init ==
    /\ pc = "start"
    /\ inFile \in InputFiles
    /\ points = << >>
    /\ tets = << >>
    /\ boundFaces = None
    /\ stdout = << >>
    /\ topo = NoTopo
    /\ outFile = NoFile

ReadNodeEle(computeTopo) ==
    /\ pc = "start"
    /\ inFile.type = ".node"
    /\ LET node == ReadNode(inFile)
           raw == ReadEle(inFile, node.startFromZero)
           repaired == RepairPass(node.points, raw, 0)
           lines == NodeLines(node.points, raw, 1)
           res == GetFaceTopo(repaired)
       IN  /\ points' = node.points
           /\ tets' = repaired
           /\ IF computeTopo
              THEN /\ topo' = res
                   /\ stdout' = stdout \o lines \o res.out
                   /\ IF res.status = "returned"
                      THEN pc' = "read" /\ boundFaces' = res.boundaryFaces
                      ELSE pc' = "aborted" /\ boundFaces' = boundFaces
              ELSE /\ topo' = topo
                   /\ stdout' = stdout \o lines
                   /\ pc' = "read"
                   /\ boundFaces' = None
    /\ UNCHANGED <<inFile, outFile>>

ReadTet ==
    /\ pc = "start"
    /\ inFile.type = ".tet"
    /\ LET pts == ReadTetPoints(inFile)
           raw == ReadTetTets(inFile)
       IN  /\ points' = pts
           /\ tets' = RepairPass(pts, raw, 1)
           /\ stdout' = stdout \o TetLines(pts, raw, 1)
    /\ boundFaces' = << >>
    /\ pc' = "read"
    /\ UNCHANGED <<inFile, topo, outFile>>

ScalePoints(scale) ==
    /\ pc = "read"
    /\ stdout' = Append(stdout, Line("Scaling vertices by", scale))
    /\ points' = [i \in 1..Len(points) |-> vscale(scale, points[i])]
    /\ pc' = "scaled"
    /\ UNCHANGED <<inFile, tets, boundFaces, topo, outFile>>

\* writeNode numbers the points from 1; writeEle adds 1 to every id, in place
WriteNodeEle ==
    /\ pc \in {"read", "scaled"}
    /\ tets' = [k \in 1..Len(tets) |-> vaddscalar(1, tets[k])]
    /\ outFile' = [type |-> ".node", firstIndex |-> 1, points |-> points,
                   tets |-> tets']
    /\ pc' = "written"
    /\ UNCHANGED <<inFile, points, boundFaces, stdout, topo>>

\* writeTet writes the ids as they are; a .tet file numbers its points from 1
WriteTet ==
    /\ pc \in {"read", "scaled"}
    /\ outFile' = [type |-> ".tet", firstIndex |-> 1, points |-> points,
                   tets |-> tets]
    /\ pc' = "written"
    /\ UNCHANGED <<inFile, points, tets, boundFaces, stdout, topo>>

Next ==
    \/ \E computeTopo \in BOOLEAN : ReadNodeEle(computeTopo)
    \/ ReadTet
    \/ \E scale \in ScaleSet : ScalePoints(scale)
    \/ WriteNodeEle
    \/ WriteTet

Spec == Init /\ [][Next]_vars

-----------------------------------------------------------------------------
(* GetFaceTopo called on its own *)

InitTopo ==
    /\ pc = "call"
    /\ inFile = NoFile
    /\ points = << >>
    /\ tets \in TopoTetLists
    /\ boundFaces = None
    /\ stdout = << >>
    /\ topo = NoTopo
    /\ outFile = NoFile

CallGetFaceTopo ==
    /\ pc = "call"
    /\ topo' = GetFaceTopo(tets)
    /\ stdout' = stdout \o topo'.out
    /\ IF topo'.status = "returned"
       THEN pc' = "returned" /\ boundFaces' = topo'.boundaryFaces
       ELSE pc' = "aborted" /\ boundFaces' = boundFaces
    /\ UNCHANGED <<inFile, points, tets, outFile>>

NextTopo == CallGetFaceTopo

SpecTopo == InitTopo /\ [][NextTopo]_vars

-----------------------------------------------------------------------------
(* Vocabulary of the properties *)

\* the repair loop has run: readNodeEle or readTet has just ended
RepairRan == pc \in {"read", "aborted"} /\ inFile.type \in {".node", ".tet"}

\* the offset the reader's repair loop subtracts from a vertex id
IdOffset == IF inFile.type = ".tet" THEN 1 ELSE 0

\* the tetrahedron list as it entered the repair loop
PreRepairTets ==
    IF inFile.type = ".tet" THEN ReadTetTets(inFile)
    ELSE ReadEle(inFile, ReadNode(inFile).startFromZero)

\* the points as the reader returned them
PointsAsRead ==
    IF inFile.type = ".tet" THEN ReadTetPoints(inFile) ELSE ReadNode(inFile).points

\* the determinant of the rows a - d, b - d, c - d over the reals
ExactDet(a, b, c, d) ==
    LET m11 == a[1] - d[1]
        m12 == a[2] - d[2]
        m13 == a[3] - d[3]
        m21 == b[1] - d[1]
        m22 == b[2] - d[2]
        m23 == b[3] - d[3]
        m31 == c[1] - d[1]
        m32 == c[2] - d[2]
        m33 == c[3] - d[3]
    IN  m11 * (m22 * m33 - m23 * m32) - m12 * (m21 * m33 - m23 * m31)
          + m13 * (m21 * m32 - m22 * m31)

\* orient3d returns the real determinant for this tetrahedron: rounding
\* has not changed the result
OrientExact(pts, tet, off) ==
    TetOrient(pts, tet, off) =
        ExactDet(PyIndex(pts, tet[1] - off), PyIndex(pts, tet[2] - off),
                 PyIndex(pts, tet[3] - off), PyIndex(pts, tet[4] - off))

\* orient3d is exact on the tetrahedron in its order and in the exchanged one
ExactBothOrders(pts, tet, off) ==
    OrientExact(pts, tet, off) /\ OrientExact(pts, SwapFirstTwo(tet), off)

IdSet(tet) == { tet[j] : j \in 1..4 }

-----------------------------------------------------------------------------
(* C1 *)

\* C1 (as claimed): after the repair pass of readNodeEle or readTet, every
\* tetrahedron whose orient3d was non-zero before the pass has orient3d > 0
\* on its stored vertex order.
C1_RepairPostcondition ==
    RepairRan =>
        \A k \in 1..Len(tets) :
            TetOrient(points, PreRepairTets[k], IdOffset) # 0
                => TetOrient(points, tets[k], IdOffset) > 0

\* C1 (amended): the same, for the tetrahedra on which orient3d returns the
\* real determinant in the order read and in the exchanged order.
C1_RepairPostconditionExact ==
    RepairRan =>
        \A k \in 1..Len(tets) :
            ( /\ TetOrient(points, PreRepairTets[k], IdOffset) # 0
              /\ ExactBothOrders(points, PreRepairTets[k], IdOffset) )
                => TetOrient(points, tets[k], IdOffset) > 0

\* an inverted tetrahedron, exactly evaluated, has been exchanged
C1_Witness ==
    /\ RepairRan
    /\ \E k \in 1..Len(tets) :
          /\ TetOrient(points, PreRepairTets[k], IdOffset) < 0
          /\ ExactBothOrders(points, PreRepairTets[k], IdOffset)
          /\ tets[k] = SwapFirstTwo(PreRepairTets[k])

-----------------------------------------------------------------------------
(* C2 *)

\* C2 (as claimed): for any scale factor, the tetrahedra that are positively
\* oriented after repair are still positively oriented on the scaled points
\* that are handed to the writer.
C2_ScaledOutputPositive ==
    pc = "scaled" =>
        \A k \in 1..Len(tets) :
            TetOrient(PointsAsRead, tets[k], IdOffset) > 0
                => TetOrient(points, tets[k], IdOffset) > 0

-----------------------------------------------------------------------------
(* C3 *)

\* tetrahedron k of the input is ((0,0,0), (1,0,0), (0,1,0), (0,0,1))
IsReferenceTet(k) ==
    LET t == PreRepairTets[k]
    IN  /\ PyIndex(PointsAsRead, t[1] - IdOffset) = <<0, 0, 0>>
        /\ PyIndex(PointsAsRead, t[2] - IdOffset) = <<1, 0, 0>>
        /\ PyIndex(PointsAsRead, t[3] - IdOffset) = <<0, 1, 0>>
        /\ PyIndex(PointsAsRead, t[4] - IdOffset) = <<0, 0, 1>>

\* C3 (as claimed): orient3d((0,0,0), (1,0,0), (0,1,0), (0,0,1)) = 1.
C3_ReferenceOrientIsOne ==
    RepairRan =>
        \A k \in 1..Len(tets) :
            IsReferenceTet(k) => TetOrient(points, PreRepairTets[k], IdOffset) = 1

\* C3 (amended): orient3d((0,0,0), (1,0,0), (0,1,0), (0,0,1)) = -1, the
\* determinant of the matrix whose rows are a - d, b - d, c - d.
C3_ReferenceOrientIsMinusOne ==
    RepairRan =>
        \A k \in 1..Len(tets) :
            IsReferenceTet(k) =>
                /\ TetOrient(points, PreRepairTets[k], IdOffset) = -1
                /\ OrientExact(points, PreRepairTets[k], IdOffset)

\* the reference tetrahedron has been read and repaired
C3_Witness ==
    /\ RepairRan
    /\ \E k \in 1..Len(tets) :
          IsReferenceTet(k) /\ tets[k] = SwapFirstTwo(PreRepairTets[k])

-----------------------------------------------------------------------------
(* C4, C5, C6: GetFaceTopo *)

\* GetFaceTopo has been called and has returned or raised
TopoCalled == pc \in {"returned", "aborted"} /\ topo.status # "not called"

FaceSet(face) == { face[j] : j \in 1..3 }

TetFaceSets(tet) == { FaceSet(TetFaces(tet)[j]) : j \in 1..4 }

\* the numbers (from 0) of the tetrahedra that contain the face, ascending
OwnersOf(faceSet) ==
    SortSeq(
        (LET own == { t \in 0..(Len(tets) - 1) : faceSet \in TetFaceSets(tets[t + 1]) }
             f == CHOOSE g \in [1..Cardinality(own) -> own] :
                      \A i, j \in 1..Cardinality(own) : i # j => g[i] # g[j]
         IN  f),
        LAMBDA x, y : x < y)

AllFaceSets == UNION { TetFaceSets(tets[t]) : t \in 1..Len(tets) }

\* every face belongs to at most two tetrahedra
Manifold == \A fs \in AllFaceSets : Len(OwnersOf(fs)) <= 2

\* the owner pair the claims describe: first and second owner, or unset
ExpectedOwners(faceSet) ==
    LET own == OwnersOf(faceSet)
    IN  << own[1], IF Len(own) >= 2 THEN own[2] ELSE -1 >>

\* the face of the owning tetrahedron with the vertices of unique face n
OrientedFaceOf(n) ==
    LET tet == tets[topo.face2tet[n][1] + 1]
    IN  CHOOSE f \in { TetFaces(tet)[j] : j \in 1..4 } :
            FaceSet(f) = FaceSet(topo.uniqueFaces[n].items)

BoundaryFaceNums == { n \in 1..Len(topo.face2tet) : topo.face2tet[n][2] = -1 }

\* C4 (as claimed): on a list in which some face occurs in three or more
\* tetrahedra, GetFaceTopo prints the diagnostic, does not abort, and the
\* face's owner slots keep the first two owners.
C4_NonManifoldIsRecoverable ==
    (TopoCalled /\ ~Manifold) =>
        /\ topo.status = "returned"
        /\ \E i \in 1..Len(stdout) :
              stdout[i].msg = "whoa, found more than two tets for a face?"
        /\ \A n \in 1..Len(topo.uniqueFaces) :
              Len(OwnersOf(FaceSet(topo.uniqueFaces[n].items))) >= 3
                  => topo.face2tet[n] =
                        ExpectedOwners(FaceSet(topo.uniqueFaces[n].items))

\* C5 (as claimed): on a list in which every face belongs to at most two
\* tetrahedra, GetFaceTopo returns, the foundface check never fails, and
\* boundaryFaces holds the oriented face of every unique face whose second
\* owner is unset; a single tetrahedron (0,1,2,3) gives 4 unique faces, all
\* of them boundary faces.
C5_BoundaryFacesOnManifold ==
    (TopoCalled /\ Manifold) =>
        /\ topo.status = "returned"
        /\ topo.line # 264
        /\ Len(topo.boundaryFaces) = Cardinality(BoundaryFaceNums)
        /\ \A n \in BoundaryFaceNums :
              \E i \in 1..Len(topo.boundaryFaces) :
                  topo.boundaryFaces[i] = OrientedFaceOf(n)
        /\ tets = << <<0, 1, 2, 3>> >> =>
              /\ Len(topo.uniqueFaces) = 4
              /\ Len(topo.boundaryFaces) = 4
              /\ \A n \in 1..4 : topo.face2tet[n][2] = -1

\* C6 (as claimed): each unique face's owner slots hold the first and the
\* second tetrahedron containing it, in list order; (0,1,2,3) and (0,1,2,4)
\* give 7 unique faces, 6 boundary faces, and owners (0, 1) of the shared face.
C6_OwnersInDiscoveryOrder ==
    (TopoCalled /\ Manifold) =>
        /\ \A n \in 1..Len(topo.uniqueFaces) :
              topo.face2tet[n] = ExpectedOwners(FaceSet(topo.uniqueFaces[n].items))
        /\ tets = << <<0, 1, 2, 3>>, <<0, 1, 2, 4>> >> =>
              /\ topo.status = "returned"
              /\ Len(topo.uniqueFaces) = 7
              /\ Len(topo.boundaryFaces) = 6
              /\ \E n \in 1..7 :
                    /\ topo.uniqueFaces[n].items = <<0, 1, 2>>
                    /\ topo.face2tet[n] = <<0, 1>>

-----------------------------------------------------------------------------
(* C7 *)

\* the positions (from 0) in the file's point list that a tetrahedron of
\* the file refers to
FilePositions(file, k) == { file.tets[k][j] - file.firstIndex : j \in 1..4 }

\* C7 (as claimed): after either reader every vertex id is a 0-based index
\* into the point list and denotes the point the input file referred to, and
\* the ids a writer emits refer to the same points as the input.
C7_IdsAreZeroBased ==
    /\ pc \in {"read", "scaled"} =>
          \A k \in 1..Len(tets) :
              /\ \A j \in 1..4 : tets[k][j] \in 0..(Len(points) - 1)
              /\ IdSet(tets[k]) = FilePositions(inFile, k)
    /\ pc = "written" =>
          \A k \in 1..Len(outFile.tets) :
              FilePositions(outFile, k) = FilePositions(inFile, k)

-----------------------------------------------------------------------------
(* C8 *)

\* C8 (as claimed): a second repair pass changes no tetrahedron.
C8_RepairIdempotent ==
    RepairRan => RepairPass(points, tets, IdOffset) = tets

\* C8 (amended): a second repair pass changes no tetrahedron on which
\* orient3d returns the real determinant in both orders of its first two
\* vertices.
C8_RepairIdempotentExact ==
    RepairRan =>
        \A k \in 1..Len(tets) :
            ExactBothOrders(points, PreRepairTets[k], IdOffset)
                => RepairPass(points, tets, IdOffset)[k] = tets[k]

\* the first pass has exchanged an exactly evaluated tetrahedron
C8_Witness ==
    /\ RepairRan
    /\ \E k \in 1..Len(tets) :
          /\ ExactBothOrders(points, PreRepairTets[k], IdOffset)
          /\ tets[k] # PreRepairTets[k]
          /\ RepairPass(points, tets, IdOffset)[k] = tets[k]

-----------------------------------------------------------------------------
(* C9 *)

ZeroVolumeLines == { i \in 1..Len(stdout) : stdout[i].msg = "WHOA! input zero-volume tet" }

DegenerateTets ==
    { k \in 1..Len(tets) : TetOrient(points, PreRepairTets[k], IdOffset) = 0 }

\* C9: a tetrahedron whose orient3d is exactly zero keeps its vertex order
\* and gets exactly one zero-volume line (readNodeEle names the tetrahedron,
\* readTet prints one unnumbered line per such tetrahedron), and the pass
\* goes on to the tetrahedra after it.
C9_DegenerateReportedAndKept ==
    RepairRan =>
        /\ \A k \in DegenerateTets : tets[k] = PreRepairTets[k]
        /\ Cardinality(ZeroVolumeLines) = Cardinality(DegenerateTets)
        /\ inFile.type = ".node" =>
              \A k \in 1..Len(tets) :
                  Cardinality({ i \in ZeroVolumeLines : stdout[i].num = k - 1 })
                      = IF k \in DegenerateTets THEN 1 ELSE 0
        /\ Len(tets) = Len(PreRepairTets)
        /\ \A k \in 1..Len(tets) :
              TetOrient(points, PreRepairTets[k], IdOffset) < 0
                  => tets[k] # PreRepairTets[k]

\* a degenerate tetrahedron was followed by another tetrahedron
C9_Witness ==
    /\ RepairRan
    /\ \E k \in DegenerateTets : k < Len(tets)

-----------------------------------------------------------------------------
(* C10 *)

-----------------------------------------------------------------------------
(* C11 *)

\* the sorted vertex triples of the faces of all tetrahedra, in the order
\* in which the tetrahedra and their four faces are walked
GeneratedTriples ==
    LET faces == AllFaces(tets, 1)
    IN  [i \in 1..Len(faces) |-> SortSeq(faces[i], LAMBDA x, y : x < y)]

\* the place at which a triple occurs for the first time in triples
FirstOccurrence(triples, tr) ==
    CHOOSE i \in 1..Len(triples) :
        /\ triples[i] = tr
        /\ \A j \in 1..(i - 1) : triples[j] # tr

\* uf holds every triple of triples exactly once, in the order of first
\* occurrence, and t2f leads from every generated face to its triple in uf
UniqueInFirstSeenOrder(triples, uf, t2f) ==
    /\ { uf[n].items : n \in 1..Len(uf) } = { triples[i] : i \in 1..Len(triples) }
    /\ \A m, n \in 1..Len(uf) :
          m < n => /\ uf[m].items # uf[n].items
                   /\ FirstOccurrence(triples, uf[m].items)
                        < FirstOccurrence(triples, uf[n].items)
    /\ Len(t2f) * 4 = Len(triples)
    /\ \A t \in 1..Len(t2f) : \A k \in 1..4 :
          /\ t2f[t][k] \in 0..(Len(uf) - 1)
          /\ uf[t2f[t][k] + 1].items = triples[(t - 1) * 4 + k]

\* C11: uniqueFaces holds every sorted vertex triple generated from the
\* tetrahedra exactly once, in the order of first occurrence, and for every
\* tetrahedron t and k in 0..3 uniqueFaces[tet2face[t][k]] is the sorted
\* triple of t's k-th face.
C11_UniqueFacesAndTet2Face ==
    TopoCalled =>
        /\ Len(topo.tet2face) = Len(tets)
        /\ UniqueInFirstSeenOrder(GeneratedTriples, topo.uniqueFaces, topo.tet2face)

\* a later tetrahedron repeated some faces of an earlier one and brought
\* new ones
C11_Witness ==
    /\ TopoCalled
    /\ Len(tets) >= 2
    /\ Len(topo.uniqueFaces) > 4
    /\ Len(topo.uniqueFaces) < 4 * Len(tets)

====
